---- MODULE Spec2Model ----
(***************************************************************************)
(* Model of replays-parser/generate_ids.py: the recursive resolution of an *)
(* entity's .def file (collect_methods) and the index assignment           *)
(* (to_indexed_dict) that main applies to its result.                      *)
(*                                                                         *)
(* Text is a sequence of chunks: " " is one whitespace character, any      *)
(* other chunk is a run of non-whitespace characters.  The empty sequence  *)
(* stands for Python's None (ElementTree gives None for an element without *)
(* text).  Member names are sequences of code points, because sorted()     *)
(* compares them.                                                          *)
(***************************************************************************)
EXTENDS Integers, Sequences, FiniteSets, TLC

VARIABLES
    family,     \* which bounded family of definition sets the files are drawn from
    pc,         \* where main is: "main", "collect", "index", "done"
    ent_name,   \* the entity of entities.xml that main processes
    defs,       \* the content of each .def file, fixed when it is first read
    visited,    \* the list collect_methods threads through its recursion
    stack,      \* the collect_methods calls in progress, outermost first
    data,       \* what the top-level collect_methods call returned
    full_data,  \* the entity records main has built
    reads       \* how often ET.parse has read each .def file

vars == <<family, pc, ent_name, defs, visited, stack, data, full_data, reads>>

-----------------------------------------------------------------------------
(* Bounds of the model *)

\* Interface elements in the .def files of one definition set ("graphs").
MaxIfaces == 4
\* Member, Arg, DetailDistance and Type elements in the .def files of one
\* definition set ("members").
MaxElems == 4
\* Arg children of one member declaration.
MaxArgs == 2
\* Depth of the Python call stack the model follows.
MaxDepth == 5
\* Keys of one category map handed to to_indexed_dict in IndexSpec.
MaxNames == 3

-----------------------------------------------------------------------------
(* The inputs: names, texts and the content of .def files *)

Categories == <<"ClientMethods", "Properties", "CellMethods", "BaseMethods">>

CategorySet == {Categories[i] : i \in 1..Len(Categories)}

\* The .def files that exist under the game path; "X" is a name without file.
FilesOnDisk == {"A", "B", "C", "D"}

EntityNames == {"A", "X"}

NoPath == "None"

\* Member names "m" and "n".
MemberNames == {<<109>>, <<110>>}

\* Two families of definition sets.  "graphs": any Implements lists over the
\* four files with at most MaxIfaces Interface elements, every file declaring
\* one client method of its own and every interface the client method m.
\* "members": A implements B or nothing, and A and B hold any member
\* declarations with at most MaxElems elements.
Families == {"graphs", "members"}

GraphInterfaceTexts == {<<f>> : f \in FilesOnDisk} \cup {<<"X">>, <<>>}

MemberImplements(def_path) ==
    IF def_path = "A" THEN {<<>>, << <<" ", "B", " ">> >>} ELSE {<<>>}

\* The member name "a", "b", "c" or "d" that only the file declares.
OwnName(def_path) ==
    CASE def_path = "A" -> <<97>>
      [] def_path = "B" -> <<98>>
      [] def_path = "C" -> <<99>>
      [] OTHER -> <<100>>

ArgTexts == {<<"INT32">>, <<" ", "STRING", " ">>, <<>>}

\* The Type child of a declaration: absent, or present with its text.
TypeChoices == {<<>>, << <<>> >>, << <<" ", "FLOAT">> >>}

Range(s) == {s[i] : i \in 1..Len(s)}

Min(a, b) == IF a < b THEN a ELSE b

SeqsUpTo(S, n) == UNION {[1..k -> S] : k \in 0..n}

EmptySections == [c \in CategorySet |-> <<>>]

Unread == [read |-> FALSE, ok |-> FALSE, implements |-> <<>>,
           sections |-> EmptySections]

\* A file ET.parse cannot parse.
Unparseable == [read |-> TRUE, ok |-> FALSE, implements |-> <<>>,
                sections |-> EmptySections]

DeclWeight(d) ==
    1 + Len(d.Arg) + (IF d.DetailDistance THEN 1 ELSE 0) + Len(d.Type)

RECURSIVE DeclsWeight(_)
DeclsWeight(ds) ==
    IF ds = <<>> THEN 0 ELSE DeclWeight(Head(ds)) + DeclsWeight(Tail(ds))

DeclsWithin(w, isProp) ==
    {d \in [tag : MemberNames,
            Arg : SeqsUpTo(ArgTexts, Min(MaxArgs, w - 1)),
            DetailDistance : BOOLEAN,
            Type : IF isProp THEN TypeChoices ELSE {<<>>}] :
        DeclWeight(d) <= w}

RECURSIVE DeclLists(_, _)
DeclLists(w, isProp) ==
    IF w <= 0 THEN {<<>>}
    ELSE {<<>>} \cup
         UNION {{<<d>> \o rest : rest \in DeclLists(w - DeclWeight(d), isProp)} :
                   d \in DeclsWithin(w, isProp)}

SectionsWithin(w) ==
    UNION {UNION {UNION {
        {[ClientMethods |-> a, Properties |-> b, CellMethods |-> c,
          BaseMethods |-> d] :
            d \in DeclLists(w - DeclsWeight(a) - DeclsWeight(b) - DeclsWeight(c),
                            FALSE)} :
          c \in DeclLists(w - DeclsWeight(a) - DeclsWeight(b), FALSE)} :
          b \in DeclLists(w - DeclsWeight(a), TRUE)} :
          a \in DeclLists(w, FALSE)}

RECURSIVE Sum(_, _)
Sum(f, S) ==
    IF S = {} THEN 0
    ELSE LET p == CHOOSE x \in S : TRUE IN f[p] + Sum(f, S \ {p})

IfacesUsed == Sum([p \in FilesOnDisk |-> Len(defs[p].implements)], FilesOnDisk)

ElemsUsed ==
    Sum([p \in FilesOnDisk |->
            DeclsWeight(defs[p].sections["ClientMethods"])
            + DeclsWeight(defs[p].sections["Properties"])
            + DeclsWeight(defs[p].sections["CellMethods"])
            + DeclsWeight(defs[p].sections["BaseMethods"])], FilesOnDisk)

\* The entity A declares only its own method; every interface file also
\* declares m, with an Arg that names the file.
GraphSections(def_path) ==
    [EmptySections EXCEPT !["ClientMethods"] =
        (IF def_path = "A" THEN <<>>
         ELSE <<[tag |-> <<109>>, Arg |-> << <<def_path>> >>,
                 DetailDistance |-> FALSE, Type |-> <<>>]>>)
        \o <<[tag |-> OwnName(def_path), Arg |-> << <<"INT32">> >>,
              DetailDistance |-> FALSE, Type |-> <<>>]>>]

GraphNodes(def_path) ==
    {Unparseable} \cup
    {[read |-> TRUE, ok |-> TRUE, implements |-> impl,
      sections |-> GraphSections(def_path)] :
        impl \in SeqsUpTo(GraphInterfaceTexts, MaxIfaces - IfacesUsed)}

MemberNodes(def_path) ==
    UNION {{[read |-> TRUE, ok |-> TRUE, implements |-> impl, sections |-> s] :
              s \in SectionsWithin(MaxElems - ElemsUsed)} :
              impl \in MemberImplements(def_path)}

\* What ET.parse(def_path) yields: the file's content, fixed once it was read.
ParseResults(def_path) ==
    IF defs[def_path].read THEN {defs[def_path]}
    ELSE IF family = "graphs" THEN GraphNodes(def_path)
    ELSE MemberNodes(def_path)

-----------------------------------------------------------------------------
(* Pure functions of the program *)

RECURSIVE lstrip(_)
lstrip(s) == IF s # <<>> /\ Head(s) = " " THEN lstrip(Tail(s)) ELSE s

RECURSIVE rstrip(_)
rstrip(s) ==
    IF s # <<>> /\ s[Len(s)] = " " THEN rstrip(SubSeq(s, 1, Len(s) - 1)) ELSE s

strip(s) == rstrip(lstrip(s))

get_def_path(entity_name) ==
    IF Len(entity_name) = 1 /\ entity_name[1] \in FilesOnDisk
    THEN entity_name[1]
    ELSE NoPath

EmptyResults == [c \in CategorySet |-> <<>>]

\* The value of the cycle short-circuit: a dict of four empty lists.
CycleReturn == [c \in CategorySet |-> <<>>]

InVisitedParentOnly(def_path, vis) ==
    vis # <<>> /\ def_path = vis[Len(vis)]

InVisited(def_path, vis) == def_path \in Range(vis)

UpdateFirstWins(d, e) ==
    [k \in DOMAIN d \cup DOMAIN e |-> IF k \in DOMAIN d THEN d[k] ELSE e[k]]

UpdateReplaces(d, e) == e

\* dict.update: the entries of e are written over those of d.
Update(d, e) ==
    [k \in DOMAIN d \cup DOMAIN e |-> IF k \in DOMAIN e THEN e[k] ELSE d[k]]

MergeInherited(results, inherited) ==
    [c \in CategorySet |-> Update(results[c], inherited[c])]

is_excluded_marker_only(child) == child.DetailDistance

is_excluded_args_only(child) == Len(child.Arg) = 0

is_excluded(child) == child.DetailDistance \/ Len(child.Arg) = 0

p_type(child) ==
    IF child.Type # <<>> /\ child.Type[1] # <<>>
    THEN strip(child.Type[1])
    ELSE <<"UNKNOWN">>

args(child) ==
    [i \in 1..Len(child.Arg) |->
        IF child.Arg[i] # <<>> THEN strip(child.Arg[i]) ELSE <<>>]

Descriptor(section, child) ==
    IF section = "Properties"
    THEN [type |-> p_type(child)]
    ELSE [args |-> args(child)]

RECURSIVE ProcessSection(_, _, _)
ProcessSection(res, section, children) ==
    IF children = <<>> THEN res
    ELSE LET child == Head(children)
             next == IF is_excluded(child) THEN res
                     ELSE Update(res, [k \in {child.tag} |->
                                          Descriptor(section, child)])
         IN ProcessSection(next, section, Tail(children))

LocalDefinitions(results, root) ==
    [c \in CategorySet |-> ProcessSection(results[c], c, root.sections[c])]

FinallyNoPop(vis) == vis

Finally(vis) == SubSeq(vis, 1, Len(vis) - 1)

RECURSIVE LexLess(_, _)
LexLess(a, b) ==
    IF a = <<>> THEN b # <<>>
    ELSE IF b = <<>> THEN FALSE
    ELSE IF Head(a) # Head(b) THEN Head(a) < Head(b)
    ELSE LexLess(Tail(a), Tail(b))

RECURSIVE sorted_reverse(_)
sorted_reverse(S) ==
    IF S = {} THEN <<>>
    ELSE LET mx == CHOOSE x \in S : \A y \in S \ {x} : LexLess(y, x)
         IN <<mx>> \o sorted_reverse(S \ {mx})

RECURSIVE sorted(_)
sorted(S) ==
    IF S = {} THEN <<>>
    ELSE LET mn == CHOOSE x \in S : \A y \in S \ {x} : LexLess(x, y)
         IN <<mn>> \o sorted(S \ {mn})

to_indexed_dict(data_dict) ==
    LET sorted_keys == sorted(DOMAIN data_dict)
    IN [i \in 0..(Len(sorted_keys) - 1) |->
           data_dict[sorted_keys[i + 1]] @@ [name |-> sorted_keys[i + 1]]]

-----------------------------------------------------------------------------
(* The state machine *)

\* One collect_methods call in progress.  inh is the history of what each
\* Interface element processed so far contributed.
NewFrame(def_path, node) ==
    [path |-> def_path,
     status |-> IF node.ok THEN "implements" ELSE "raised",
     i |-> 0,
     results |-> EmptyResults,
     inh |-> <<>>]

Top == stack[Len(stack)]

Root(f) == defs[f.path]

Init ==
    /\ family \in Families
    /\ pc = "main"
    /\ ent_name \in EntityNames
    /\ defs = [p \in FilesOnDisk |-> Unread]
    /\ visited = <<>>
    /\ stack = <<>>
    /\ data = EmptyResults
    /\ full_data = {}
    /\ reads = [p \in FilesOnDisk |-> 0]

\* collect_methods, from visited.append to ET.parse, for a path not visited.
Enter(def_path, node) ==
    /\ visited' = Append(visited, def_path)
    /\ reads' = [reads EXCEPT ![def_path] = @ + 1]
    /\ defs' = [defs EXCEPT ![def_path] = node]
    /\ stack' = Append(stack, NewFrame(def_path, node))

\* main: no .def file for the entity, the loop continues.
MainSkipEntity ==
    /\ pc = "main"
    /\ get_def_path(<<ent_name>>) = NoPath
    /\ pc' = "done"
    /\ UNCHANGED <<family, ent_name, defs, visited, stack, data, full_data, reads>>

\* main: the top-level call collect_methods(game_path, def_path).
MainCollect ==
    /\ pc = "main"
    /\ get_def_path(<<ent_name>>) # NoPath
    /\ ~InVisited(get_def_path(<<ent_name>>), visited)
    /\ \E node \in ParseResults(get_def_path(<<ent_name>>)) :
          Enter(get_def_path(<<ent_name>>), node)
    /\ pc' = "collect"
    /\ UNCHANGED <<family, ent_name, data, full_data>>

AtInterface ==
    /\ pc = "collect"
    /\ stack # <<>>
    /\ Top.status = "implements"
    /\ Top.i < Len(Root(Top).implements)

InterfaceText == Root(Top).implements[Top.i + 1]

InterfaceDef == get_def_path(strip(InterfaceText))

Advance(f, kind, inherited) ==
    [f EXCEPT !.i = @ + 1,
              !.results = MergeInherited(@, inherited),
              !.inh = Append(@, [kind |-> kind, val |-> inherited])]

\* interface.text is None: .strip() raises, the except clause catches it.
InterfaceNoText ==
    /\ AtInterface
    /\ InterfaceText = <<>>
    /\ stack' = [stack EXCEPT ![Len(stack)].status = "raised"]
    /\ UNCHANGED <<family, pc, ent_name, defs, visited, data, full_data, reads>>

InterfaceNotFound ==
    /\ AtInterface
    /\ InterfaceText # <<>>
    /\ InterfaceDef = NoPath
    /\ stack' = [stack EXCEPT ![Len(stack)] =
                    [@ EXCEPT !.i = @ + 1,
                              !.inh = Append(@, [kind |-> "notfound",
                                                 val |-> EmptyResults])]]
    /\ UNCHANGED <<family, pc, ent_name, defs, visited, data, full_data, reads>>

\* The nested call finds its path in visited and returns at once.
InterfaceCycle ==
    /\ AtInterface
    /\ InterfaceText # <<>>
    /\ InterfaceDef # NoPath
    /\ InVisited(InterfaceDef, visited)
    /\ stack' = [stack EXCEPT ![Len(stack)] = Advance(@, "cycle", CycleReturn)]
    /\ UNCHANGED <<family, pc, ent_name, defs, visited, data, full_data, reads>>

InterfaceRecurse ==
    /\ AtInterface
    /\ InterfaceText # <<>>
    /\ InterfaceDef # NoPath
    /\ ~InVisited(InterfaceDef, visited)
    /\ Len(stack) < MaxDepth
    /\ \E node \in ParseResults(InterfaceDef) : Enter(InterfaceDef, node)
    /\ UNCHANGED <<family, pc, ent_name, data, full_data>>

\* The loop over the four sections of the file.
ProcessLocals ==
    /\ pc = "collect"
    /\ stack # <<>>
    /\ Top.status = "implements"
    /\ Top.i = Len(Root(Top).implements)
    /\ stack' = [stack EXCEPT ![Len(stack)] =
                    [@ EXCEPT !.results = LocalDefinitions(@, Root(Top)),
                              !.status = "return"]]
    /\ UNCHANGED <<family, pc, ent_name, defs, visited, data, full_data, reads>>

Returning ==
    /\ pc = "collect"
    /\ stack # <<>>
    /\ Top.status \in {"raised", "return"}

\* finally: visited.pop(); return results; the caller merges them.
ReturnToCaller ==
    /\ Returning
    /\ Len(stack) > 1
    /\ visited' = Finally(visited)
    /\ stack' = [SubSeq(stack, 1, Len(stack) - 1) EXCEPT ![Len(stack) - 1] =
                    Advance(@, "call", Top.results)]
    /\ UNCHANGED <<family, pc, ent_name, defs, data, full_data, reads>>

ReturnToMain ==
    /\ Returning
    /\ Len(stack) = 1
    /\ visited' = Finally(visited)
    /\ stack' = <<>>
    /\ data' = Top.results
    /\ pc' = "index"
    /\ UNCHANGED <<family, ent_name, defs, full_data, reads>>

\* main: entity_json, with to_indexed_dict applied to the four categories.
BuildEntityJson ==
    /\ pc = "index"
    /\ full_data' = full_data \cup
          {[name |-> ent_name,
            clientMethods |-> to_indexed_dict(data["ClientMethods"]),
            properties |-> to_indexed_dict(data["Properties"]),
            cellMethods |-> to_indexed_dict(data["CellMethods"]),
            baseMethods |-> to_indexed_dict(data["BaseMethods"])]}
    /\ pc' = "done"
    /\ UNCHANGED <<family, ent_name, defs, visited, stack, data, reads>>

Next ==
    \/ MainSkipEntity
    \/ MainCollect
    \/ InterfaceNoText
    \/ InterfaceNotFound
    \/ InterfaceCycle
    \/ InterfaceRecurse
    \/ ProcessLocals
    \/ ReturnToCaller
    \/ ReturnToMain
    \/ BuildEntityJson

Spec == Init /\ [][Next]_vars

\* The program is one sequential thread: a step that can be taken is taken.
InitGraphs == Init /\ family = "graphs"

FairGraphSpec == InitGraphs /\ [][Next]_vars /\ WF_vars(Next)

-----------------------------------------------------------------------------
(* to_indexed_dict on its own: main hands it any category map *)

\* Names over the code points of "A", "H" and "o", one or two long.
IndexNames == UNION {[1..k -> {65, 72, 111}] : k \in 1..2}

IndexDescriptor(c, k) ==
    IF c = "Properties"
    THEN [type |-> IF k[1] = 65 THEN <<"FLOAT">> ELSE <<"UNKNOWN">>]
    ELSE [args |-> IF k[1] = 65 THEN << <<"INT32">> >>
                   ELSE << <<"INT32">>, <<"STRING">> >>]

IndexInputs ==
    UNION {{[EmptyResults EXCEPT ![c] = [k \in K |-> IndexDescriptor(c, k)]] :
              K \in {S \in SUBSET IndexNames : Cardinality(S) <= MaxNames}} :
              c \in CategorySet}

InitIndex ==
    /\ family = "members"
    /\ pc = "index"
    /\ ent_name = "A"
    /\ defs = [p \in FilesOnDisk |-> Unread]
    /\ visited = <<>>
    /\ stack = <<>>
    /\ data \in IndexInputs
    /\ full_data = {}
    /\ reads = [p \in FilesOnDisk |-> 0]

IndexSpec == InitIndex /\ [][BuildEntityJson]_vars

-----------------------------------------------------------------------------
(* What the claims speak of *)

AllNames == MemberNames \cup {OwnName(p) : p \in FilesOnDisk}

MethodCategories == CategorySet \ {"Properties"}

Max(S) == CHOOSE x \in S : \A y \in S : y <= x

Decls(f, c) == Root(f).sections[c]

\* The exclusion rule as the specification words it.
ClaimExcluded(c, d) ==
    d.DetailDistance \/ (c \in MethodCategories /\ Len(d.Arg) = 0)

\* The declared type tag of a property, "UNKNOWN" if absent or empty.
DeclaredType(d) ==
    IF d.Type = <<>> \/ d.Type[1] = <<>> THEN <<"UNKNOWN">>
    ELSE SelectSeq(d.Type[1], LAMBDA ch : ch # " ")

\* The Arg type tags of a declaration, in order.
TypeTags(d) ==
    [i \in 1..Len(d.Arg) |-> SelectSeq(d.Arg[i], LAMBDA ch : ch # " ")]

\* The local declarations of m in c that the call has written.
LocalWriters(f, c, m) ==
    IF f.status # "return" THEN {}
    ELSE {k \in 1..Len(Decls(f, c)) :
            Decls(f, c)[k].tag = m /\ ~is_excluded(Decls(f, c)[k])}

\* The Interface elements, by position, whose call contributed m in c.
InheritedWriters(f, c, m) ==
    {j \in 1..Len(f.inh) : m \in DOMAIN f.inh[j].val[c]}

\* The path the j-th Interface element of the file resolves to.
InterfacePath(f, j) == get_def_path(strip(Root(f).implements[j]))

\* The Interface elements of a file that are reached: those before the first
\* one without text.
ReachedInterfaces(q) ==
    {j \in 1..Len(defs[q].implements) :
        \A k \in 1..j : defs[q].implements[k] # <<>>}

Implemented(q) ==
    {get_def_path(strip(defs[q].implements[j])) : j \in ReachedInterfaces(q)}
    \ {NoPath}

RECURSIVE Closure(_)
Closure(S) ==
    LET more == S \cup UNION {Implemented(q) : q \in S}
    IN IF more = S THEN S ELSE Closure(more)

\* The definitions whose local declarations are processed when def_path is
\* resolved: those reachable over Implements that parse and hold no Interface
\* element without text.
Contributors(def_path) ==
    {q \in Closure({def_path}) :
        defs[q].ok /\ ReachedInterfaces(q) = 1..Len(defs[q].implements)}

LocalNames(q, c) ==
    {defs[q].sections[c][k].tag : k \in
        {k \in 1..Len(defs[q].sections[c]) : ~is_excluded(defs[q].sections[c][k])}}

TopLevelReturned == pc \in {"index", "done"} /\ get_def_path(<<ent_name>>) # NoPath

-----------------------------------------------------------------------------
(* The claims *)

\* C1: a declaration in Properties without a detail-distance marker is in the
\* Properties map a call returns, with its declared type ("UNKNOWN" if absent
\* or empty), although it has no Arg children.
C1_PropertiesNeverExcludedByArgs ==
    \A n \in 1..Len(stack) :
        LET f == stack[n]
            ds == Decls(f, "Properties")
        IN f.status = "return" =>
            \A k \in 1..Len(ds) :
                (~ds[k].DetailDistance
                 /\ \A l \in (k + 1)..Len(ds) :
                        ds[l].tag # ds[k].tag \/ ds[l].DetailDistance)
                => /\ ds[k].tag \in DOMAIN f.results["Properties"]
                   /\ f.results["Properties"][ds[k].tag]
                        = [type |-> DeclaredType(ds[k])]

\* C2 as stated: a name whose local declarations in a category are all
\* excluded (zero arguments in a method category, or a detail-distance marker)
\* is no key of that category in the result of the call, whatever the
\* interfaces contribute.
C2_ExcludedNeverAppears ==
    \A n \in 1..Len(stack) :
        LET f == stack[n] IN
        f.status = "return" =>
            \A c \in CategorySet : \A m \in AllNames :
                LET own == {k \in 1..Len(Decls(f, c)) : Decls(f, c)[k].tag = m}
                IN (own # {} /\ \A k \in own : ClaimExcluded(c, Decls(f, c)[k]))
                   => m \notin DOMAIN f.results[c]

\* C2 as amended: an excluded local declaration writes nothing and removes
\* nothing.  A name whose local declarations in a category are all excluded is
\* a key of that category in the result exactly when an interface contributed
\* it, and then with the descriptor of the last interface that did.
C2_ExcludedLocalWritesNothing ==
    \A n \in 1..Len(stack) :
        LET f == stack[n] IN
        f.status = "return" =>
            \A c \in CategorySet : \A m \in AllNames :
                LET own == {k \in 1..Len(Decls(f, c)) : Decls(f, c)[k].tag = m}
                    inherited == InheritedWriters(f, c, m)
                IN (own # {} /\ \A k \in own : ClaimExcluded(c, Decls(f, c)[k]))
                   => IF inherited = {} THEN m \notin DOMAIN f.results[c]
                      ELSE /\ m \in DOMAIN f.results[c]
                           /\ f.results[c][m] = f.inh[Max(inherited)].val[c][m]

\* A call returns with an excluded local declaration of m beside an inherited
\* entry of m, which stays in the result.
C2_Witness ==
    \E n \in 1..Len(stack) :
        LET f == stack[n]
            ds == Decls(f, "ClientMethods")
        IN /\ f.status = "return"
           /\ \E k \in 1..Len(ds) : ds[k].tag = <<109>> /\ Len(ds[k].Arg) = 0
           /\ \A k \in 1..Len(ds) : ds[k].tag = <<109>> => Len(ds[k].Arg) = 0
           /\ InheritedWriters(f, "ClientMethods", <<109>>) # {}
           /\ <<109>> \in DOMAIN f.results["ClientMethods"]

\* C3: in every call and category, the descriptor of a name is the one of the
\* last write in declaration order: the call's last local declaration of the
\* name that is not excluded, if the call has processed its local
\* declarations and there is one, otherwise the one contributed by the last
\* Interface element (in file order) that contributed the name; a name nobody
\* contributed is no key.
C3_LaterWriteWins ==
    \A n \in 1..Len(stack) :
        LET f == stack[n] IN
        \A c \in CategorySet : \A m \in AllNames :
            LET local == LocalWriters(f, c, m)
                inherited == InheritedWriters(f, c, m)
            IN IF local # {}
               THEN /\ m \in DOMAIN f.results[c]
                    /\ f.results[c][m] = Descriptor(c, Decls(f, c)[Max(local)])
               ELSE IF inherited # {}
               THEN /\ m \in DOMAIN f.results[c]
                    /\ f.results[c][m] = f.inh[Max(inherited)].val[c][m]
               ELSE m \notin DOMAIN f.results[c]

\* The call for A returns: B, which overrode the m of C, and then C
\* contributed m with different descriptors, and the result holds the m of C.
C3_Witness ==
    /\ Len(stack) = 1
    /\ Top.status = "return"
    /\ defs["A"].implements = << <<"B">>, <<"C">> >>
    /\ defs["B"].implements = << <<"C">> >>
    /\ Len(Top.inh) = 2
    /\ \A j \in 1..2 : <<109>> \in DOMAIN Top.inh[j].val["ClientMethods"]
    /\ Top.inh[1].val["ClientMethods"][<<109>>] = [args |-> << <<"B">> >>]
    /\ Top.inh[2].val["ClientMethods"][<<109>>] = [args |-> << <<"C">> >>]
    /\ Top.results["ClientMethods"][<<109>>] = [args |-> << <<"C">> >>]

\* C4: the top-level call terminates, whatever the Implements graph, and main
\* holds the four category maps (or has skipped an entity without file).
C4_Terminates ==
    <>(pc = "done" /\ DOMAIN data = CategorySet
       /\ (get_def_path(<<ent_name>>) # NoPath => full_data # {}))

\* The run has ended over the cycle A -> B -> C -> A.
C4_Witness ==
    /\ pc = "done"
    /\ defs["A"].implements = << <<"B">> >>
    /\ defs["B"].implements = << <<"C">> >>
    /\ defs["C"].implements = << <<"A">> >>
    /\ full_data # {}

\* C5: an Interface element contributes the four empty collections of the
\* cycle short-circuit exactly when its path is on the current call path, and
\* the top-level result holds, in each category, exactly the names of the
\* local declarations (not excluded) of every definition reachable over
\* Implements whose local declarations are processed.
C5_OnlyReentryIsCut ==
    /\ \A n \in 1..Len(stack) : \A j \in 1..Len(stack[n].inh) :
          LET item == stack[n].inh[j]
              onPath == InterfacePath(stack[n], j)
                            \in {stack[k].path : k \in 1..n}
          IN /\ item.kind = "cycle" => onPath /\ item.val = EmptyResults
             /\ item.kind = "call" => ~onPath
    /\ TopLevelReturned =>
          \A c \in CategorySet :
              DOMAIN data[c] =
                  UNION {LocalNames(q, c) :
                            q \in Contributors(get_def_path(<<ent_name>>))}

\* A implements B and C, B implements A: the result holds the members of A,
\* of B and of C.
C5_Witness ==
    /\ pc = "done"
    /\ defs["A"].implements = << <<"B">>, <<"C">> >>
    /\ defs["B"].implements = << <<"A">> >>
    /\ defs["C"].ok
    /\ DOMAIN data["ClientMethods"] = {<<97>>, <<98>>, <<99>>, <<109>>}

\* C6 as stated: within one top-level call every file is parsed at most once.
C6_ParsedAtMostOnce == \A p \in FilesOnDisk : reads[p] <= 1

\* C6 as amended: a file is parsed only by a call whose path is not on the
\* current call path, which then puts it there: no file is parsed again while
\* a call for it is in progress.  (A file reached over two branches is parsed
\* once on each.)
C6_ParsedOncePerCallPath ==
    [][\A p \in FilesOnDisk :
          reads'[p] # reads[p] =>
              /\ reads'[p] = reads[p] + 1
              /\ p \notin Range(visited)
              /\ visited' = Append(visited, p)]_vars

\* The diamond: B and C both implement D, and D was parsed twice.
C6_Witness ==
    /\ pc = "done"
    /\ defs["A"].implements = << <<"B">>, <<"C">> >>
    /\ defs["B"].implements = << <<"D">> >>
    /\ defs["C"].implements = << <<"D">> >>
    /\ defs["D"].ok
    /\ reads["D"] = 2

\* C7: a call in which an exception was raised returns four empty maps.
C7_FailureContributesNothing ==
    \A n \in 1..Len(stack) :
        stack[n].status = "raised" => stack[n].results = EmptyResults

\* C8: to_indexed_dict maps the names of a category map one-to-one onto
\* 0..n-1 in ascending code point order, each with its descriptor.
C8_IndexedInNameOrder ==
    \A e \in full_data :
        \A c \in CategorySet :
            LET idx == CASE c = "ClientMethods" -> e.clientMethods
                         [] c = "Properties" -> e.properties
                         [] c = "CellMethods" -> e.cellMethods
                         [] OTHER -> e.baseMethods
                d == data[c]
            IN /\ DOMAIN idx = 0..(Cardinality(DOMAIN d) - 1)
               /\ \A i \in DOMAIN idx :
                     /\ idx[i].name \in DOMAIN d
                     /\ Cardinality({k \in DOMAIN d : LexLess(k, idx[i].name)}) = i
                     /\ \A fld \in DOMAIN d[idx[i].name] :
                           idx[i][fld] = d[idx[i].name][fld]
                     /\ DOMAIN idx[i] = DOMAIN d[idx[i].name] \cup {"name"}

\* The names "oH" and "oA": index 0 holds "oA", index 1 holds "oH".
C8_Witness ==
    /\ pc = "done"
    /\ DOMAIN data["ClientMethods"] = {<<111, 72>>, <<111, 65>>}
    /\ \E e \in full_data :
          /\ e.clientMethods[0].name = <<111, 65>>
          /\ e.clientMethods[1].name = <<111, 72>>

EntriesFromDeclarations(results, def_path) ==
    \A c \in MethodCategories : \A m \in DOMAIN results[c] :
        /\ results[c][m].args # <<>>
        /\ \E q \in Closure({def_path}) :
              \E k \in 1..Len(defs[q].sections[c]) :
                  LET d == defs[q].sections[c][k]
                  IN /\ d.tag = m
                     /\ ~d.DetailDistance
                     /\ TypeTags(d) = results[c][m].args

\* C9: every entry of a method category, in every call and in the top-level
\* result, has a non-empty argument list that equals, in order, the Arg type
\* tags of a declaration without detail-distance marker, local or in a
\* transitively implemented interface.
C9_MethodEntriesFromDeclarations ==
    /\ \A n \in 1..Len(stack) :
          EntriesFromDeclarations(stack[n].results, stack[n].path)
    /\ TopLevelReturned =>
          EntriesFromDeclarations(data, get_def_path(<<ent_name>>))

\* The result for A holds an inherited method with two different type tags.
C9_Witness ==
    /\ pc = "done"
    /\ defs["A"].sections["ClientMethods"] = <<>>
    /\ \E m \in DOMAIN data["ClientMethods"] :
          LET a == data["ClientMethods"][m].args
          IN Len(a) = 2 /\ a[1] = <<"STRING">> /\ a[2] = <<"INT32">>

\* C10: visited is the current call path: the paths of the calls in progress,
\* in call order and without duplicates, never longer than the number of
\* definition files, and empty when the top-level call has returned.
C10_VisitedIsCallPath ==
    /\ visited = [n \in 1..Len(stack) |-> stack[n].path]
    /\ \A i, j \in 1..Len(visited) : i # j => visited[i] # visited[j]
    /\ Len(visited) <= Cardinality(FilesOnDisk)
    /\ pc \in {"main", "index", "done"} => visited = <<>>

\* The top-level call has returned after a cycle short-circuit (B implements
\* A), a normal return (B) and a caught exception (A), with visited empty.
C10_Witness ==
    /\ pc = "index"
    /\ defs["A"].implements = << <<"B">>, <<>> >>
    /\ defs["B"].implements = << <<"A">> >>
    /\ visited = <<>>

====
